---- MODULE Spec2Model ----
(***************************************************************************)
(* Pair mining of open_place_recognition: the spatial index and the masks  *)
(* built at dataset construction (BasePlaceRecognitionDataset, ITLPCampus) *)
(* and the per-batch masks of make_collate_fn.collate_fn (Spec); the       *)
(* sample pipeline of ITLPCampus, from the cloud file to the batch         *)
(* (SpecSample).                                                           *)
(*                                                                         *)
(* Positions are integer grid points.  A distance is carried as its        *)
(* square (an integer); a comparison of a distance with a threshold t is   *)
(* made on the squares, with the sign of t taken into account, so that it  *)
(* is exact and a distance exactly equal to a threshold is representable.  *)
(* Record indices are 0-based as in the source.                            *)
(***************************************************************************)
EXTENDS Integers, Sequences, FiniteSets, TLC

VARIABLES
    phase,               \* "new" | "constructed" | "failed"
    cls,                 \* class under construction: "none" | "BasePlaceRecognitionDataset" | "ITLPCampus"
    positive_threshold,  \* argument of __init__
    negative_threshold,  \* argument of __init__
    attrs,               \* names of the attributes assigned on self so far
    dataset_df,          \* self.dataset_df: the position table, one position per record
    positives_index,     \* self._positives_index
    nonnegative_index,   \* self._nonnegative_index
    positives_mask,      \* self._positives_mask  (ITLPCampus only)
    negatives_mask,      \* self._negatives_mask  (ITLPCampus only)
    raised,              \* exception that ended the last call, "none" if it returned
    batch,               \* value returned by the last collate_fn call
    collate_made,        \* make_collate_fn has returned its closure
    batch_split_size,    \* the batch_split_size the closure captured: None or {k}
    sensors,             \* self.sensors of ITLPCampus, as a set
    load_semantics,      \* self.load_semantics
    exclude_dynamic_classes,  \* self.exclude_dynamic_classes
    indoor,              \* self.indoor
    loaders,             \* which of load_text_labels, load_text_descriptions, load_aruco_labels are set
    max_point_distance,  \* self._max_point_distance: None or {d}
    quantization_size,   \* self._pointcloud_quantization_size, in grid units
    call,                \* the method of ITLPCampus called last, with its arguments
    ret                  \* the value that call returned

minevars == <<phase, cls, positive_threshold, negative_threshold, attrs, dataset_df,
              positives_index, nonnegative_index, positives_mask, negatives_mask,
              raised, batch>>

loadervars == <<collate_made, batch_split_size>>

cfgvars == <<sensors, load_semantics, exclude_dynamic_classes, indoor, loaders,
             max_point_distance, quantization_size>>

samplevars == <<cfgvars, call, ret>>

vars == <<minevars, loadervars, samplevars>>

---------------------------------------------------------------------------
(* Bounds of the model *)

MaxN == 2        \* records in a position table
MaxCoord == 1    \* largest coordinate along the first axis
MaxThr == 2      \* largest threshold
MaxBatch == 2    \* samples in a batch
MaxPts == 2      \* points in a cloud

Thresholds == (-1)..MaxThr

\* <<northing, easting>> rows of base.py: the points of one axis and a
\* unit step along the other.
Points2D == {<<x, 0>> : x \in 0..MaxCoord} \cup {<<0, 1>>}

\* <<tx, ty, tz>> rows of itlp.py: the points of one axis and a unit step
\* along each of the other two.
Points3D == {<<x, 0, 0>> : x \in 0..MaxCoord} \cup {<<0, 1, 0>>, <<0, 0, 1>>}

Tables(points) == UNION {[1..k -> points] : k \in 0..MaxN}

\* The end-to-end scenario of the specification: 4 poses on a line.
ScenarioInput2D ==
    [df |-> << <<0, 0>>, <<1, 0>>, <<20, 0>>, <<100, 0>> >>, p |-> 5, n |-> 15]

ScenarioInput3D ==
    [df |-> << <<0, 0, 0>>, <<1, 0, 0>>, <<20, 0, 0>>, <<100, 0, 0>> >>, p |-> 5, n |-> 15]

BaseInputs ==
    {[df |-> t, p |-> p, n |-> n] : t \in Tables(Points2D), p \in Thresholds, n \in Thresholds}
        \cup {ScenarioInput2D}

ITLPInputs ==
    {[df |-> t, p |-> p, n |-> n] : t \in Tables(Points3D), p \in Thresholds, n \in Thresholds}
        \cup {ScenarioInput3D}

Subsets == {"train", "bogus"}

---------------------------------------------------------------------------
(* Distances and comparisons *)

RECURSIVE SumSq(_, _, _)
SumSq(a, b, k) ==
    IF k = 0 THEN 0 ELSE (a[k] - b[k]) * (a[k] - b[k]) + SumSq(a, b, k - 1)

\* scipy cdist / torch.cdist: the matrix of pairwise Euclidean distances
\* (held squared), indexed by 0-based record numbers.
cdist(XA, XB) ==
    [i \in 0..(Len(XA) - 1) |->
        [j \in 0..(Len(XB) - 1) |-> SumSq(XA[i + 1], XB[j + 1], Len(XA[i + 1]))]]

\* distance > t, for a distance whose square is d2
DistGt(d2, t) == IF t < 0 THEN TRUE ELSE d2 > t * t

\* distance < t, for a distance whose square is d2
DistLt(d2, t) == IF t <= 0 THEN FALSE ELSE d2 < t * t

\* Variant of nonzero: the indices are collected last to first.
RECURSIVE nonzero_descending(_, _)
nonzero_descending(row, k) ==
    IF k \notin DOMAIN row THEN <<>>
    ELSE nonzero_descending(row, k + 1) \o (IF row[k] THEN <<k>> ELSE <<>>)

\* np.where(row)[0] / torch.nonzero(row).squeeze(-1): the indices of the
\* true entries of a boolean row, scanned from index k upwards.
RECURSIVE nonzero(_, _)
nonzero(row, k) ==
    IF k \notin DOMAIN row THEN <<>>
    ELSE (IF row[k] THEN <<k>> ELSE <<>>) \o nonzero(row, k + 1)

---------------------------------------------------------------------------
(* BasePlaceRecognitionDataset._build_indexes *)

\* Variant of Base_positives_mask: the test distances > 0 is left out.
Base_positives_mask_no_gt0(distances, p) ==
    [i \in DOMAIN distances |->
        [j \in DOMAIN distances[i] |-> DistLt(distances[i][j], p)]]

Base_positives_mask(distances, p) ==
    [i \in DOMAIN distances |->
        [j \in DOMAIN distances[i] |-> DistGt(distances[i][j], 0) /\ DistLt(distances[i][j], p)]]

Base_nonnegatives_mask(distances, n) ==
    [i \in DOMAIN distances |->
        [j \in DOMAIN distances[i] |-> DistLt(distances[i][j], n)]]

Base_build_indexes(df, p, n) ==
    LET distances == cdist(df, df)
        pmask == Base_positives_mask(distances, p)
        nmask == Base_nonnegatives_mask(distances, n)
    IN  [positive_indices |-> [i \in DOMAIN pmask |-> nonzero(pmask[i], 0)],
         nonnegative_indices |-> [i \in DOMAIN nmask |-> nonzero(nmask[i], 0)]]

---------------------------------------------------------------------------
(* ITLPCampus._build_indexes and ITLPCampus._build_masks *)

\* Variant of Index_positives_mask: the test distances > 0 is left out.
Index_positives_mask_no_gt0(distances, p) ==
    [i \in DOMAIN distances |->
        [j \in DOMAIN distances[i] |-> DistLt(distances[i][j], p)]]

\* Variant of Index_positives_mask: distances <= positive_threshold.
Index_positives_mask_le(distances, p) ==
    [i \in DOMAIN distances |->
        [j \in DOMAIN distances[i] |->
            DistGt(distances[i][j], 0) /\ ~DistGt(distances[i][j], p)]]

\* Variant of Index_positives_mask: self is excluded by keeping the later
\* records only.
Index_positives_mask_upper(distances, p) ==
    [i \in DOMAIN distances |->
        [j \in DOMAIN distances[i] |-> j > i /\ DistLt(distances[i][j], p)]]

Index_positives_mask(distances, p) ==
    [i \in DOMAIN distances |->
        [j \in DOMAIN distances[i] |-> DistGt(distances[i][j], 0) /\ DistLt(distances[i][j], p)]]

\* Variant of Index_nonnegatives_mask: the test distances > 0 of the
\* positives is repeated here.
Index_nonnegatives_mask_gt0(distances, n) ==
    [i \in DOMAIN distances |->
        [j \in DOMAIN distances[i] |-> DistGt(distances[i][j], 0) /\ DistLt(distances[i][j], n)]]

\* Variant of Index_nonnegatives_mask: distances <= negative_threshold.
Index_nonnegatives_mask_le(distances, n) ==
    [i \in DOMAIN distances |->
        [j \in DOMAIN distances[i] |-> ~DistGt(distances[i][j], n)]]

Index_nonnegatives_mask(distances, n) ==
    [i \in DOMAIN distances |->
        [j \in DOMAIN distances[i] |-> DistLt(distances[i][j], n)]]

ITLP_build_indexes(df, p, n) ==
    LET distances == cdist(df, df)
        pmask == Index_positives_mask(distances, p)
        nmask == Index_nonnegatives_mask(distances, n)
    IN  [positive_indices |-> [i \in DOMAIN pmask |-> nonzero(pmask[i], 0)],
         nonnegative_indices |-> [i \in DOMAIN nmask |-> nonzero(nmask[i], 0)]]

Masks_positives_mask(distances, p) ==
    [i \in DOMAIN distances |->
        [j \in DOMAIN distances[i] |-> DistGt(distances[i][j], 0) /\ DistLt(distances[i][j], p)]]

\* Variant of Masks_negatives_mask: the comparison is inverted.
Masks_negatives_mask_lt(distances, n) ==
    [i \in DOMAIN distances |->
        [j \in DOMAIN distances[i] |-> DistLt(distances[i][j], n)]]

Masks_negatives_mask(distances, n) ==
    [i \in DOMAIN distances |->
        [j \in DOMAIN distances[i] |-> DistGt(distances[i][j], n)]]

ITLP_build_masks(df, p, n) ==
    LET distances == cdist(df, df)
    IN  [positives_mask |-> Masks_positives_mask(distances, p),
         negatives_mask |-> Masks_negatives_mask(distances, n)]

---------------------------------------------------------------------------
(* Threshold validation of the two constructors *)

Base_check_thresholds(p, n) ==
    IF p < 0 THEN "ValueError: positive_threshold"
    ELSE IF n < 0 THEN "ValueError: negative_threshold"
    ELSE "none"

\* Variant of ITLP_check_thresholds: negative_threshold is not checked.
ITLP_check_thresholds_positive_only(p, n) ==
    IF p < 0 THEN "ValueError: positive_threshold" ELSE "none"

ITLP_check_thresholds(p, n) ==
    IF p < 0 THEN "ValueError: positive_threshold"
    ELSE IF n < 0 THEN "ValueError: negative_threshold"
    ELSE "none"

---------------------------------------------------------------------------
(* State machine *)

\* Python's None; an int k is held as {k}.
None == {}

\* No method of the sample pipeline has been called, nothing was returned.
NoCall == [op |-> "none", args |-> <<>>]

\* A returned cloud is held as [pointcloud |-> cloud], a returned sample or
\* batch as the function of its keys.
NoRet == <<>>

\* The keyword defaults of ITLPCampus.__init__.  The grid unit of a cloud
\* coordinate is the default quantization size.
DefaultSampleState ==
    /\ sensors = {"front_cam", "lidar"}
    /\ load_semantics = FALSE
    /\ exclude_dynamic_classes = FALSE
    /\ indoor = FALSE
    /\ loaders = {}
    /\ max_point_distance = None
    /\ quantization_size = 1
    /\ call = NoCall
    /\ ret = NoRet

NoBatch == [indices |-> <<>>, positives_mask |-> <<>>, negatives_mask |-> <<>>]

Init ==
    /\ phase = "new"
    /\ cls = "none"
    /\ positive_threshold = 0
    /\ negative_threshold = 0
    /\ attrs = {}
    /\ dataset_df = <<>>
    /\ positives_index = <<>>
    /\ nonnegative_index = <<>>
    /\ positives_mask = <<>>
    /\ negatives_mask = <<>>
    /\ raised = "none"
    /\ batch = NoBatch
    /\ collate_made = FALSE
    /\ batch_split_size = None
    /\ DefaultSampleState

\* The call ends with exception e before self.dataset_df is assigned.
FailEarly(c, p, n, e) ==
    /\ phase' = "failed"
    /\ cls' = c
    /\ positive_threshold' = p
    /\ negative_threshold' = n
    /\ raised' = e
    /\ UNCHANGED <<attrs, dataset_df, positives_index, nonnegative_index,
                   positives_mask, negatives_mask, batch>>
    /\ UNCHANGED loadervars
    /\ UNCHANGED samplevars

\* BasePlaceRecognitionDataset.__init__
Base_init ==
    /\ phase = "new"
    /\ \E root_exists \in BOOLEAN, subset \in Subsets, csv_exists \in BOOLEAN, inp \in BaseInputs :
        IF ~root_exists
        THEN FailEarly("BasePlaceRecognitionDataset", inp.p, inp.n, "FileNotFoundError")
        ELSE IF subset \notin {"train", "val", "test"}
        THEN FailEarly("BasePlaceRecognitionDataset", inp.p, inp.n, "ValueError: subset")
        ELSE IF ~csv_exists
        THEN FailEarly("BasePlaceRecognitionDataset", inp.p, inp.n, "FileNotFoundError")
        ELSE LET e == Base_check_thresholds(inp.p, inp.n)
                 idx == Base_build_indexes(inp.df, inp.p, inp.n)
             IN  /\ cls' = "BasePlaceRecognitionDataset"
                 /\ positive_threshold' = inp.p
                 /\ negative_threshold' = inp.n
                 /\ dataset_df' = inp.df
                 /\ raised' = e
                 /\ IF e # "none"
                    THEN /\ phase' = "failed"
                         /\ attrs' = {"dataset_df"}
                         /\ UNCHANGED <<positives_index, nonnegative_index>>
                    ELSE /\ phase' = "constructed"
                         /\ attrs' = {"dataset_df", "_positives_index", "_nonnegative_index"}
                         /\ positives_index' = idx.positive_indices
                         /\ nonnegative_index' = idx.nonnegative_indices
                 /\ UNCHANGED <<positives_mask, negatives_mask, batch>>
                 /\ UNCHANGED loadervars
                 /\ UNCHANGED samplevars

\* ITLPCampus.__init__
ITLPCampus_init ==
    /\ phase = "new"
    /\ \E inp \in ITLPInputs, root_exists \in BOOLEAN, csv_exists \in BOOLEAN :
        IF ~root_exists \/ ~csv_exists
        THEN FailEarly("ITLPCampus", inp.p, inp.n, "FileNotFoundError")
        ELSE LET e == ITLP_check_thresholds(inp.p, inp.n)
                 idx == ITLP_build_indexes(inp.df, inp.p, inp.n)
                 msk == ITLP_build_masks(inp.df, inp.p, inp.n)
             IN  /\ cls' = "ITLPCampus"
                 /\ positive_threshold' = inp.p
                 /\ negative_threshold' = inp.n
                 /\ dataset_df' = inp.df
                 /\ raised' = e
                 /\ IF e # "none"
                    THEN /\ phase' = "failed"
                         /\ attrs' = {"dataset_df"}
                         /\ UNCHANGED <<positives_index, nonnegative_index,
                                        positives_mask, negatives_mask>>
                    ELSE /\ phase' = "constructed"
                         /\ attrs' = {"dataset_df", "_positives_index", "_nonnegative_index",
                                      "_positives_mask", "_negatives_mask"}
                         /\ positives_index' = idx.positive_indices
                         /\ nonnegative_index' = idx.nonnegative_indices
                         /\ positives_mask' = msk.positives_mask
                         /\ negatives_mask' = msk.negatives_mask
                 /\ UNCHANGED batch
                 /\ UNCHANGED loadervars
                 /\ UNCHANGED samplevars

---------------------------------------------------------------------------
(* make_collate_fn.collate_fn: the masks of a batch *)

\* torch.searchsorted(array, e): the leftmost position (0-based) at which e
\* can be inserted into the ascending array, by bisection of [lo, hi).
RECURSIVE searchsorted(_, _, _, _)
searchsorted(array, e, lo, hi) ==
    IF lo >= hi THEN lo
    ELSE LET mid == (lo + hi) \div 2
         IN  IF array[mid + 1] < e
             THEN searchsorted(array, e, mid + 1, hi)
             ELSE searchsorted(array, e, lo, mid)

in_sorted_array(e, array) ==
    LET pos == searchsorted(array, e, 0, Len(array))
    IN  IF pos = Len(array) THEN FALSE ELSE array[pos + 1] = e

get_positives(label) == positives_index[label]

get_nonnegatives(label) == nonnegative_index[label]

BatchIndices ==
    UNION {[1..k -> 0..(Len(dataset_df) - 1)] : k \in 1..MaxBatch}

\* Variant of collate_masks: the negatives are not inverted.
collate_masks_not_inverted(indices) ==
    [indices |-> indices,
     positives_mask |->
        [a \in 1..Len(indices) |->
            [b \in 1..Len(indices) |-> in_sorted_array(indices[b], get_positives(indices[a]))]],
     negatives_mask |->
        [a \in 1..Len(indices) |->
            [b \in 1..Len(indices) |-> in_sorted_array(indices[b], get_nonnegatives(indices[a]))]]]

collate_masks(indices) ==
    [indices |-> indices,
     positives_mask |->
        [a \in 1..Len(indices) |->
            [b \in 1..Len(indices) |-> in_sorted_array(indices[b], get_positives(indices[a]))]],
     negatives_mask |->
        [a \in 1..Len(indices) |->
            [b \in 1..Len(indices) |-> ~in_sorted_array(indices[b], get_nonnegatives(indices[a]))]]]

\* The values make_dataloaders passes as batch_split_size: None when the
\* sampler configuration has none (and always for the test loader), else
\* the configured number.
SplitSizes == {None, {0}, {2}}

\* make_collate_fn: the closure over the dataset and batch_split_size.
make_collate_fn ==
    /\ phase = "constructed"
    /\ ~collate_made
    /\ \E split \in SplitSizes :
        /\ collate_made' = TRUE
        /\ batch_split_size' = split
    /\ UNCHANGED minevars
    /\ UNCHANGED samplevars

\* Variant of single_stage: only None selects the single-stage branch.
single_stage_none_only(split) == split = None

\* batch_split_size is None or batch_split_size == 0
single_stage(split) == split = None \/ split = {0}

\* One call of collate_fn on the samples a DataLoader drew; the previous
\* batch has been handed to the training loop.
collate_fn ==
    /\ phase = "constructed"
    /\ collate_made
    /\ batch = NoBatch
    /\ \E indices \in BatchIndices :
        IF single_stage(batch_split_size)
        THEN /\ batch' = collate_masks(indices)
             /\ raised' = "none"
        ELSE /\ raised' = "NotImplementedError"
             /\ UNCHANGED batch
    /\ UNCHANGED <<phase, cls, positive_threshold, negative_threshold, attrs, dataset_df,
                   positives_index, nonnegative_index, positives_mask, negatives_mask>>
    /\ UNCHANGED loadervars
    /\ UNCHANGED samplevars

\* The DataLoader yields the batch to its consumer and goes on to the next one.
next_batch ==
    /\ phase = "constructed"
    /\ batch # NoBatch
    /\ batch' = NoBatch
    /\ UNCHANGED <<phase, cls, positive_threshold, negative_threshold, attrs, dataset_df,
                   positives_index, nonnegative_index, positives_mask, negatives_mask, raised>>
    /\ UNCHANGED loadervars
    /\ UNCHANGED samplevars

Next == Base_init \/ ITLPCampus_init \/ make_collate_fn \/ collate_fn \/ next_batch

Spec == Init /\ [][Next]_vars

---------------------------------------------------------------------------
(* ITLPCampus: the sample pipeline (_load_pc, _remove_dynamic_points,      *)
(* __getitem__, _collate_data_dict), checked under SpecSample.  A cloud is *)
(* a sequence of points <<x, y, z>> with integer coordinates, in the order *)
(* of the rows of the array; NaNPoint is a row of NaN.  A norm is carried  *)
(* as its square.                                                          *)

\* The attributes of a constructed dataset, which no method of the sample
\* pipeline assigns.
builtvars == <<phase, cls, positive_threshold, negative_threshold, attrs, dataset_df,
               positives_index, nonnegative_index, positives_mask, negatives_mask,
               batch>>

NaNPoint == <<>>

isnan(p) == p = NaNPoint

\* The value k of an int held as {k}.
Some(s) == CHOOSE k \in s : TRUE

Clouds(points) == UNION {[1..k -> points] : k \in 0..MaxPts}

\* Rows of a cloud file: near points, a point on the limit of the range
\* (its norm equal to the largest max_point_distance), points beyond the
\* limit on either side, a row of NaN.
FilePoints == {<<1, 0, 0>>, <<0, -100, 0>>, <<0, 0, 101>>, <<-101, 0, 0>>, NaNPoint}

MaxDistances == {None, {100}}

RangeLimit == 100

NormSq(p) == p[1] * p[1] + p[2] * p[2] + p[3] * p[3]

\* Variant of in_range: the limits of the range are excluded.
in_range_open(p) ==
    /\ ~isnan(p)
    /\ \A a \in 1..3 : (-RangeLimit < p[a]) /\ (p[a] < RangeLimit)

\* np.all(np.logical_and(-100 <= pc, pc <= 100), axis=1) for one row; a
\* comparison with NaN is false.
in_range(p) ==
    /\ ~isnan(p)
    /\ \A a \in 1..3 : (-RangeLimit <= p[a]) /\ (p[a] <= RangeLimit)

\* np.linalg.norm(p) < d
norm_lt(p, d) == IF d <= 0 THEN FALSE ELSE NormSq(p) < d * d

\* ITLPCampus._load_pc, from the rows of the file (intensity dropped).
load_pc(file, mpd) ==
    LET pc == SelectSeq(file, in_range)
    IN  IF mpd # None
        THEN SelectSeq(pc, LAMBDA p : norm_lt(p, Some(mpd)))
        ELSE pc

SensorSets == SUBSET {"front_cam", "back_cam", "lidar"}

LoaderFlags == {"load_text_labels", "load_text_descriptions", "load_aruco_labels"}

QuantSizes == {1, 2}

Config(s, sem, exc, ind, ld, mpd, q) ==
    [sensors |-> s, load_semantics |-> sem, exclude_dynamic_classes |-> exc,
     indoor |-> ind, loaders |-> ld, max_point_distance |-> mpd,
     quantization_size |-> q]

\* Keyword arguments of ITLPCampus.__init__: every choice of the sensors and
\* of the flags of the dynamic-point filter with the other defaults, and
\* every choice of the other arguments with the default sensors.
SampleConfigs ==
    {Config(s, sem, exc, ind, {}, None, 1) :
        s \in SensorSets, sem \in BOOLEAN, exc \in BOOLEAN, ind \in BOOLEAN}
    \cup
    {Config({"front_cam", "lidar"}, FALSE, FALSE, FALSE, ld, mpd, q) :
        ld \in {{}} \cup {{f} : f \in LoaderFlags}, mpd \in MaxDistances, q \in QuantSizes}

\* The position table of the datasets of SpecSample.
SampleTable == << <<0, 0, 0>>, <<1, 0, 0>> >>

\* An ITLPCampus constructed on SampleTable with the default thresholds.
InitSample ==
    /\ phase = "constructed"
    /\ cls = "ITLPCampus"
    /\ positive_threshold = 10
    /\ negative_threshold = 50
    /\ attrs = {"dataset_df", "_positives_index", "_nonnegative_index",
                "_positives_mask", "_negatives_mask"}
    /\ dataset_df = SampleTable
    /\ positives_index = ITLP_build_indexes(SampleTable, 10, 50).positive_indices
    /\ nonnegative_index = ITLP_build_indexes(SampleTable, 10, 50).nonnegative_indices
    /\ positives_mask = ITLP_build_masks(SampleTable, 10, 50).positives_mask
    /\ negatives_mask = ITLP_build_masks(SampleTable, 10, 50).negatives_mask
    /\ raised = "none"
    /\ batch = NoBatch
    /\ collate_made = FALSE
    /\ batch_split_size = None
    /\ \E c \in SampleConfigs :
        /\ sensors = c.sensors
        /\ load_semantics = c.load_semantics
        /\ exclude_dynamic_classes = c.exclude_dynamic_classes
        /\ indoor = c.indoor
        /\ loaders = c.loaders
        /\ max_point_distance = c.max_point_distance
        /\ quantization_size = c.quantization_size
    /\ call = NoCall
    /\ ret = NoRet

Cameras == {"front_cam", "back_cam"}

\* lidar2sensor @ pc_values for one row: lidar2front and lidar2back, each
\* entry rounded to the nearest integer (a signed permutation of the axes;
\* the translation of a few centimetres is dropped).
camera_values(p, cam) ==
    IF isnan(p) THEN NaNPoint
    ELSE IF cam = "front_cam" THEN <<-p[2], -p[3], p[1]>>
    ELSE <<p[2], -p[3], -p[1]>>

\* front_matrix and back_matrix: focal length and principal point, rounded
\* to integers; the distortion coefficients are zero.
sensor_intrinsics(cam) ==
    IF cam = "front_cam" THEN [f |-> 684, cx |-> 615, cy |-> 345]
    ELSE [f |-> 910, cx |-> 648, cy |-> 354]

NaNPixel == <<>>

\* The largest integer not above a / b.
FloorDiv(a, b) == IF b > 0 THEN a \div b ELSE (-a) \div (-b)

\* cv2.projectPoints for one row with zero rotation, translation and
\* distortion: <<f * X / Z + cx, f * Y / Z + cy>> with Z = 0 replaced by 1.
\* The pixel is held as its floor; 0 <= u and u < w are the same for u and
\* for its floor.
projectPoints(cv, K) ==
    IF isnan(cv) THEN NaNPixel
    ELSE LET z == IF cv[3] = 0 THEN 1 ELSE cv[3]
         IN  <<FloorDiv(K.f * cv[1], z) + K.cx, FloorDiv(K.f * cv[2], z) + K.cy>>

\* self._ade20k_dynamic_idx
ade20k_dynamic_idx == {12}

\* A semantic map of height x width pixels: the pixels <<column, row>> of
\* dyn carry label 12, every other pixel carries label 0.
Label(semantic_map, row, col) == IF <<col, row>> \in semantic_map.dyn THEN 12 ELSE 0

\* set(np.unique(semantic_map))
classes(semantic_map) ==
    (IF semantic_map.dyn # {} THEN {12} ELSE {})
        \cup (IF Cardinality(semantic_map.dyn) < semantic_map.width * semantic_map.height
              THEN {0} ELSE {})

\* Maps without a dynamic pixel, and maps with one at the pixel on which a
\* point of FilterPoints falls: of the camera's frame size, of the size of
\* the default semantic transform, of a larger frame.
MapStatic == [width |-> 1280, height |-> 720, dyn |-> {}]

MapDefaultStatic == [width |-> 320, height |-> 192, dyn |-> {}]

MapFrame == [width |-> 1280, height |-> 720, dyn |-> {<<615, 345>>, <<648, 354>>}]

MapDefault == [width |-> 320, height |-> 192, dyn |-> {<<273, 3>>}]

MapLarge == [width |-> 1920, height |-> 1080, dyn |-> {<<1299, 345>>}]

SemanticMaps == {MapStatic, MapDefaultStatic, MapFrame, MapDefault, MapLarge}

\* Rows of a cloud handed to the filter: straight ahead of the front
\* camera, up and left of it, right of it, straight ahead of the back
\* camera, a row of NaN.
FilterPoints == {<<1, 0, 0>>, <<2, 1, 1>>, <<1, -1, 0>>, <<-1, 0, 0>>, NaNPoint}

BoundsWidth == 1280

BoundsHeight == 720

\* The rows of seq at the positions outside drop, in order.
RECURSIVE DropRows(_, _, _)
DropRows(seq, drop, i) ==
    IF i > Len(seq) THEN <<>>
    ELSE (IF i \in drop THEN <<>> ELSE <<seq[i]>>) \o DropRows(seq, drop, i + 1)

\* Outcomes of cv2.projectPoints on an array of n rows: the source hands it
\* every cloud, and the library's input check may reject one without rows.
ProjectOutcomes(n) == IF n = 0 THEN {"cv2.error", "none"} ELSE {"none"}

\* in_bounds_x & in_bounds_y
in_bounds(px, semantic_map) ==
    /\ px[1] >= 0 /\ px[1] < BoundsWidth
    /\ px[2] >= 0 /\ px[2] < BoundsHeight

\* classes.intersection(dynamic_classes)
has_dynamic(semantic_map) == classes(semantic_map) \cap ade20k_dynamic_idx # {}

\* ITLPCampus._remove_dynamic_points; outcome is that of cv2.projectPoints.
remove_dynamic_points(pointcloud, semantic_map, cam, outcome) ==
    LET K == sensor_intrinsics(cam)
        cv(i) == camera_values(pointcloud[i], cam)
        points_2d(i) == projectPoints(cv(i), K)
        indices == {i \in 1..Len(pointcloud) :
                        /\ ~isnan(points_2d(i))
                        /\ in_bounds(points_2d(i), semantic_map)
                        /\ cv(i)[3] > 0}
        outside == \E i \in indices :
                        \/ points_2d(i)[2] >= semantic_map.height
                        \/ points_2d(i)[1] >= semantic_map.width
        matching == {i \in indices :
                        Label(semantic_map, points_2d(i)[2], points_2d(i)[1])
                            \in ade20k_dynamic_idx}
    IN  IF outcome # "none" THEN [raised |-> outcome, pc |-> NoRet]
        ELSE IF has_dynamic(semantic_map)
        THEN IF outside THEN [raised |-> "IndexError", pc |-> NoRet]
             ELSE [raised |-> "none", pc |-> DropRows(pointcloud, matching, 1)]
        ELSE [raised |-> "none", pc |-> pointcloud]

\* A call of ITLPCampus._remove_dynamic_points with the calibration of cam.
remove_dynamic_points_call ==
    /\ phase = "constructed" /\ call = NoCall
    /\ \E pointcloud \in Clouds(FilterPoints), semantic_map \in SemanticMaps, cam \in Cameras :
        \E outcome \in ProjectOutcomes(Len(pointcloud)) :
            LET r == remove_dynamic_points(pointcloud, semantic_map, cam, outcome)
            IN  /\ call' = [op |-> "_remove_dynamic_points",
                            args |-> [pointcloud |-> pointcloud,
                                      semantic_map |-> semantic_map, cam |-> cam]]
                /\ ret' = IF r.raised = "none" THEN [pointcloud |-> r.pc] ELSE NoRet
                /\ raised' = r.raised
    /\ UNCHANGED <<builtvars, loadervars, cfgvars>>

\* Rows of the cloud file of a record: ahead of the front camera (two
\* directions), ahead of the back camera, beyond the range of _load_pc.
ScenePoints == {<<1, 0, 0>>, <<2, 1, 1>>, <<-1, 0, 0>>, <<0, 0, 101>>}

\* Semantic masks of a record as self.semantic_transform leaves them.
SampleMaps == {MapStatic, MapFrame, MapDefault}

ImageKey(cam) == IF cam = "front_cam" THEN "image_front_cam" ELSE "image_back_cam"

MaskKey(cam) == IF cam = "front_cam" THEN "mask_front_cam" ELSE "mask_back_cam"

\* The sample key under which the table read for loader flag f is stored.
TextKey(f, cam) ==
    IF f = "load_text_labels"
    THEN (IF cam = "front_cam" THEN "text_labels_front_cam_df" ELSE "text_labels_back_cam_df")
    ELSE IF f = "load_text_descriptions"
    THEN (IF cam = "front_cam" THEN "text_description_front_cam_df"
          ELSE "text_description_back_cam_df")
    ELSE (IF cam = "front_cam" THEN "aruco_labels_front_cam_df"
          ELSE "aruco_labels_back_cam_df")

\* data[k] = v
Put(data, k, v) == [x \in DOMAIN data \cup {k} |-> IF x = k THEN v ELSE data[x]]

\* The block of __getitem__ for one camera: the image, the semantic mask
\* when load_semantics is set (the image is blanked where the mask is
\* dynamic when exclude_dynamic_classes and indoor are set), and the table
\* of each loader flag.  An image is held as its camera and the set of
\* its blanked pixels.
camera_block(data, cam, mask) ==
    LET blank == load_semantics /\ exclude_dynamic_classes /\ indoor
        d1 == Put(data, ImageKey(cam),
                  [camera |-> cam, zeroed |-> IF blank THEN mask.dyn ELSE {}])
        d2 == IF load_semantics THEN Put(d1, MaskKey(cam), mask) ELSE d1
    IN  [x \in DOMAIN d2 \cup {TextKey(f, cam) : f \in loaders} |->
            IF x \in DOMAIN d2 THEN d2[x] ELSE "df"]

\* One filter step of the lidar block: skipped when cam is not a sensor, a
\* KeyError when the sample holds no mask of cam.
filter_step(r, data, cam, outcome) ==
    IF r.raised # "none" \/ cam \notin sensors THEN r
    ELSE IF MaskKey(cam) \notin DOMAIN data THEN [raised |-> "KeyError", pc |-> NoRet]
    ELSE remove_dynamic_points(r.pc, data[MaskKey(cam)], cam,
                               IF Len(r.pc) = 0 THEN outcome ELSE "none")

\* The lidar block of __getitem__: the cloud is loaded, then filtered with
\* the back camera, then with the front camera.
lidar_block(data, file, outcome) ==
    LET pc == [raised |-> "none", pc |-> load_pc(file, max_point_distance)]
    IN  IF exclude_dynamic_classes /\ indoor
        THEN filter_step(filter_step(pc, data, "back_cam", outcome),
                         data, "front_cam", outcome)
        ELSE pc

\* ITLPCampus.__getitem__(idx) with the cloud file and the masks of the
\* record; outcome is that of cv2.projectPoints on an array without rows.
getitem(idx, file, masks, outcome) ==
    LET d0 == [x \in {"idx", "pose"} |-> IF x = "idx" THEN idx ELSE dataset_df[idx + 1]]
        d1 == IF "front_cam" \in sensors
              THEN camera_block(d0, "front_cam", masks["front_cam"]) ELSE d0
        d2 == IF "back_cam" \in sensors
              THEN camera_block(d1, "back_cam", masks["back_cam"]) ELSE d1
        r == lidar_block(d2, file, outcome)
    IN  IF "lidar" \notin sensors THEN [raised |-> "none", data |-> d2]
        ELSE IF r.raised # "none" THEN [raised |-> r.raised, data |-> NoRet]
        ELSE [raised |-> "none",
              data |-> Put(Put(d2, "pointcloud_lidar_coords", r.pc),
                           "pointcloud_lidar_feats", [k \in 1..Len(r.pc) |-> 1])]

\* Variant of getitem_call: a call that served a sample switches the
\* removal of dynamic points off for the calls that follow.
getitem_call_consuming ==
    /\ phase = "constructed" /\ call = NoCall
    /\ \E idx \in 0..(Len(dataset_df) - 1), file \in Clouds(ScenePoints),
          masks \in [Cameras -> SampleMaps], outcome \in ProjectOutcomes(0) :
            LET r == getitem(idx, file, masks, outcome)
            IN  /\ call' = [op |-> "__getitem__",
                            args |-> [idx |-> idx, file |-> file, masks |-> masks]]
                /\ ret' = r.data
                /\ raised' = r.raised
    /\ exclude_dynamic_classes' = FALSE
    /\ UNCHANGED <<builtvars, loadervars, sensors, load_semantics, indoor, loaders,
                   max_point_distance, quantization_size>>

\* A call of ITLPCampus.__getitem__.
getitem_call ==
    /\ phase = "constructed" /\ call = NoCall
    /\ \E idx \in 0..(Len(dataset_df) - 1), file \in Clouds(ScenePoints),
          masks \in [Cameras -> SampleMaps], outcome \in ProjectOutcomes(0) :
            LET r == getitem(idx, file, masks, outcome)
            IN  /\ call' = [op |-> "__getitem__",
                            args |-> [idx |-> idx, file |-> file, masks |-> masks]]
                /\ ret' = r.data
                /\ raised' = r.raised
    /\ UNCHANGED <<builtvars, loadervars, cfgvars>>

\* The keys __getitem__ can put into a sample, in the order it inserts them.
KeyOrder ==
    <<"idx", "pose",
      "image_front_cam", "mask_front_cam", "text_labels_front_cam_df",
      "text_description_front_cam_df", "aruco_labels_front_cam_df",
      "image_back_cam", "mask_back_cam", "text_labels_back_cam_df",
      "text_description_back_cam_df", "aruco_labels_back_cam_df",
      "pointcloud_lidar_coords", "pointcloud_lidar_feats">>

\* data_list[0].keys()
keys(data) == SelectSeq(KeyOrder, LAMBDA k : k \in DOMAIN data)

\* data_key.startswith("image_") and data_key.startswith("mask_")
ImageKeys == {"image_front_cam", "image_back_cam"}

MaskKeys == {"mask_front_cam", "mask_back_cam"}

\* The key of the batch for a stacked sample key: "poses",
\* f"images_{data_key[6:]}", f"masks_{data_key[5:]}".
BatchKey(k) ==
    CASE k = "pose" -> "poses"
      [] k = "image_front_cam" -> "images_front_cam"
      [] k = "image_back_cam" -> "images_back_cam"
      [] k = "mask_front_cam" -> "masks_front_cam"
      [] k = "mask_back_cam" -> "masks_back_cam"

\* [e[k] for e in data_list]; evaluating it raises KeyError unless HasAll.
HasAll(data_list, k) == \A i \in 1..Len(data_list) : k \in DOMAIN data_list[i]

Column(data_list, k) == [i \in 1..Len(data_list) |-> data_list[i][k]]

\* The voxel of a point for quantization size q.
Voxel(p, q) == <<FloorDiv(p[1], q), FloorDiv(p[2], q), FloorDiv(p[3], q)>>

\* ME.utils.sparse_quantize: the voxels of the points, each listed once
\* (here in the order of first occurrence); no row for a cloud without
\* points.
RECURSIVE sparse_quantize(_, _, _)
sparse_quantize(coords, q, i) ==
    IF i > Len(coords) THEN <<>>
    ELSE (IF \E j \in 1..(i - 1) : Voxel(coords[j], q) = Voxel(coords[i], q)
          THEN <<>> ELSE <<Voxel(coords[i], q)>>)
         \o sparse_quantize(coords, q, i + 1)

\* ME.utils.batched_coordinates: the rows of the clouds of slots b, b+1, ...
\* one after the other, each with its 0-based slot prepended.
RECURSIVE batched_coordinates(_, _)
batched_coordinates(coords_list, b) ==
    IF b > Len(coords_list) THEN <<>>
    ELSE [r \in 1..Len(coords_list[b]) |-> <<b - 1>> \o coords_list[b][r]]
         \o batched_coordinates(coords_list, b + 1)

\* The features of the quantized clouds concatenated: one row per voxel.
cat_feats(coords_list) == [r \in 1..Len(batched_coordinates(coords_list, 1)) |-> 1]

\* torch.cat(coords_list, dim=0): the rows of the clouds b, b+1, ... in one
\* array.
RECURSIVE cat(_, _)
cat(coords_list, b) ==
    IF b > Len(coords_list) THEN <<>>
    ELSE coords_list[b] \o cat(coords_list, b + 1)

\* torch.split(tensor, n_points): consecutive chunks of the given lengths,
\* from row `from` on.
RECURSIVE split(_, _, _, _)
split(tensor, n_points, b, from) ==
    IF b > Len(n_points) THEN <<>>
    ELSE <<SubSeq(tensor, from, from + n_points[b] - 1)>>
         \o split(tensor, n_points, b + 1, from + n_points[b])

\* DefaultCloudSetTransform(train=False), applied to all clouds at once: an
\* evaluation dataset leaves the points as they are.
pointcloud_set_transform(coords_tensor) == coords_tensor

\* Variant of quantized_clouds: a voxel is listed once per point.
quantized_clouds_per_point(clouds) ==
    [b \in 1..Len(clouds) |->
        [r \in 1..Len(clouds[b]) |-> Voxel(clouds[b][r], quantization_size)]]

\* The clouds of a batch concatenated, transformed as one set, split back
\* by their point counts and quantized one by one.
quantized_clouds(clouds) ==
    LET n_points == [b \in 1..Len(clouds) |-> Len(clouds[b])]
        coords_list == split(pointcloud_set_transform(cat(clouds, 1)), n_points, 1, 1)
    IN  [b \in 1..Len(coords_list) |-> sparse_quantize(coords_list[b], quantization_size, 1)]

\* The loop of _collate_data_dict over the keys ks of the first sample.
RECURSIVE collate_keys(_, _, _)
collate_keys(data_list, ks, result) ==
    IF ks = <<>> THEN [raised |-> "none", result |-> result]
    ELSE LET k == Head(ks)
         IN  IF k \in {"idx", "pointcloud_lidar_feats"}
             THEN collate_keys(data_list, Tail(ks), result)
             ELSE IF k = "pose" \/ k \in ImageKeys \/ k \in MaskKeys
             THEN IF ~HasAll(data_list, k)
                  THEN [raised |-> "KeyError", result |-> NoRet]
                  ELSE collate_keys(data_list, Tail(ks),
                                    Put(result, BatchKey(k), Column(data_list, k)))
             ELSE IF k = "pointcloud_lidar_coords"
             THEN IF ~HasAll(data_list, k) \/ ~HasAll(data_list, "pointcloud_lidar_feats")
                  THEN [raised |-> "KeyError", result |-> NoRet]
                  ELSE LET q == quantized_clouds(Column(data_list, k))
                       IN  collate_keys(data_list, Tail(ks),
                              Put(Put(result, "pointclouds_lidar_coords",
                                      batched_coordinates(q, 1)),
                                  "pointclouds_lidar_feats", cat_feats(q)))
             ELSE [raised |-> "ValueError", result |-> NoRet]

\* ITLPCampus._collate_data_dict
collate_data_dict(data_list) ==
    IF ~HasAll(data_list, "idx") THEN [raised |-> "KeyError", result |-> NoRet]
    ELSE collate_keys(data_list, keys(data_list[1]),
                      [x \in {"idxs"} |-> Column(data_list, "idx")])

\* Clouds of the samples of a batch: none, one point, two points of one
\* voxel for size 2 and of two voxels for size 1, two points of two
\* voxels, the same point twice.
CollateClouds ==
    {<<>>, << <<1, 0, 0>> >>, << <<0, 0, 0>>, <<1, 0, 0>> >>,
     << <<1, 0, 0>>, <<2, 1, 1>> >>, << <<1, 0, 0>>, <<1, 0, 0>> >>}

\* A sample of record idx with the keys ks besides idx and pose.
Sample(idx, ks, cloud) ==
    [x \in {"idx", "pose"} \cup ks |->
        CASE x = "idx" -> idx
          [] x = "pose" -> dataset_df[idx + 1]
          [] x \in ImageKeys -> [camera |-> "front_cam", zeroed |-> {}]
          [] x \in MaskKeys -> MapDefault
          [] x = "pointcloud_lidar_coords" -> cloud
          [] x = "pointcloud_lidar_feats" -> [r \in 1..Len(cloud) |-> 1]
          [] OTHER -> "df"]

\* Samples as __getitem__ returns them for several configurations.
CollateSamples ==
    {Sample(0, {}, <<>>),
     Sample(1, {"image_front_cam"}, <<>>),
     Sample(0, {"image_front_cam", "mask_front_cam"}, <<>>),
     Sample(1, {"text_labels_front_cam_df"}, <<>>)}
    \cup {Sample(0, {"pointcloud_lidar_coords", "pointcloud_lidar_feats"}, c) :
            c \in CollateClouds}

DataLists == UNION {[1..k -> CollateSamples] : k \in 1..MaxBatch}

\* A call of ITLPCampus.collate_fn, which is _collate_data_dict.
collate_data_dict_call ==
    /\ phase = "constructed" /\ call = NoCall
    /\ \E data_list \in DataLists :
        LET r == collate_data_dict(data_list)
        IN  /\ call' = [op |-> "_collate_data_dict", args |-> [data_list |-> data_list]]
            /\ ret' = r.result
            /\ raised' = r.raised
    /\ UNCHANGED <<builtvars, loadervars, cfgvars>>

\* The point-cloud part of make_collate_fn.collate_fn for samples that
\* carry "cloud" (cartesian coordinates): coordinates and features of the
\* batch.  With with_intensity the features are those sparse_quantize
\* returns, one per voxel; without, one row of ones per voxel.
collate_fn_clouds(clouds, with_intensity) ==
    LET coords == quantized_clouds(clouds)
        feats == [b \in 1..Len(coords) |->
                    [r \in 1..Len(coords[b]) |-> IF with_intensity THEN 0 ELSE 1]]
    IN  [x \in {"coordinates", "features"} |->
            IF x = "coordinates" THEN batched_coordinates(coords, 1) ELSE cat(feats, 1)]

\* A call of make_collate_fn.collate_fn on samples with clouds.
collate_fn_clouds_call ==
    /\ phase = "constructed" /\ call = NoCall
    /\ \E k \in 1..MaxBatch : \E clouds \in [1..k -> CollateClouds], with_intensity \in BOOLEAN :
        /\ call' = [op |-> "collate_fn",
                    args |-> [clouds |-> clouds, with_intensity |-> with_intensity]]
        /\ IF single_stage(batch_split_size)
           THEN /\ ret' = collate_fn_clouds(clouds, with_intensity)
                /\ raised' = "none"
           ELSE /\ ret' = NoRet
                /\ raised' = "NotImplementedError"
    /\ UNCHANGED <<builtvars, loadervars, cfgvars>>

\* A tensor of a factory sample: its shape and its content.
Tensor(shape, data) == [shape |-> shape, data |-> data]

\* torch.stack(tensors, dim=0): a new leading dimension of the length of
\* the list, entry i the content of the i-th tensor; the shapes must agree.
same_shapes(tensors) == \A i \in 1..Len(tensors) : tensors[i].shape = tensors[1].shape

stack(tensors) ==
    Tensor(<<Len(tensors)>> \o tensors[1].shape,
           [i \in 1..Len(tensors) |-> tensors[i].data])

\* Tensor.squeeze(1): dimension 1 is removed when its size is 1.
squeeze1(t) ==
    IF Len(t.shape) >= 2 /\ t.shape[2] = 1
    THEN Tensor(<<t.shape[1]>> \o SubSeq(t.shape, 3, Len(t.shape)), t.data)
    ELSE t

\* Variant of stack_entry: text embeddings are stacked without squeeze.
stack_entry_unsqueezed(k, tensors) == stack(tensors)

\* The entry of the batch for the list of tensors gathered under key k.
stack_entry(k, tensors) ==
    IF k = "text_emb_front" THEN squeeze1(stack(tensors)) ELSE stack(tensors)

\* The sample keys the factory probes in the first sample, in the order of
\* the code, and the keys of the batch they are stored under.
FactoryKeyOrder == <<"image", "semantic", "text_emb_front">>

FactoryBatchKey(k) ==
    CASE k = "image" -> "images"
      [] k = "semantic" -> "semantics"
      [] k = "text_emb_front" -> "front_embs"
      [] k = "utm" -> "utms"

\* if key in data_list[0]: [e[key] for e in data_list], key after key.
RECURSIVE gather_keys(_, _)
gather_keys(data_list, ks) ==
    IF ks = <<>> THEN "none"
    ELSE IF Head(ks) \in DOMAIN data_list[1] /\ ~HasAll(data_list, Head(ks))
         THEN "KeyError"
         ELSE gather_keys(data_list, Tail(ks))

\* if key in data_list[0]: result[...] = torch.stack(...), key after key.
RECURSIVE stack_keys(_, _, _)
stack_keys(data_list, ks, result) ==
    IF ks = <<>> THEN [raised |-> "none", result |-> result]
    ELSE LET k == Head(ks)
         IN  IF k \notin DOMAIN data_list[1]
             THEN stack_keys(data_list, Tail(ks), result)
             ELSE IF ~same_shapes(Column(data_list, k))
             THEN [raised |-> "RuntimeError", result |-> NoRet]
             ELSE stack_keys(data_list, Tail(ks),
                             Put(result, FactoryBatchKey(k),
                                 stack_entry(k, Column(data_list, k))))

\* The part of make_collate_fn.collate_fn that assembles the modalities
\* other than the cloud: the lists are gathered, the positions stacked,
\* the split size tested, the lists stacked, the positions stored.
collate_fn_stack(data_list, split_size) ==
    IF gather_keys(data_list, FactoryKeyOrder) # "none" \/ ~HasAll(data_list, "utm")
    THEN [raised |-> "KeyError", result |-> NoRet]
    ELSE IF ~same_shapes(Column(data_list, "utm"))
    THEN [raised |-> "RuntimeError", result |-> NoRet]
    ELSE IF ~single_stage(split_size)
    THEN [raised |-> "NotImplementedError", result |-> NoRet]
    ELSE LET r == stack_keys(data_list, FactoryKeyOrder, << >>)
         IN  IF r.raised # "none" THEN r
             ELSE [raised |-> "none",
                   result |-> Put(r.result, "utms", stack(Column(data_list, "utm")))]

\* Shapes of a text embedding of a sample: one row of two numbers, or two
\* numbers without the row dimension.
EmbShapes == {<<1, 2>>, <<2>>}

\* A sample of a factory dataset: record idx, its position unless no_utm,
\* and a tensor for each key of ks.
FactorySample(idx, ks, emb_shape) ==
    [x \in {"idx"} \cup ks |->
        CASE x = "idx" -> idx
          [] x = "utm" -> Tensor(<<2>>, idx)
          [] x = "text_emb_front" -> Tensor(emb_shape, idx)
          [] OTHER -> Tensor(<<3, 1, 1>>, idx)]

\* Samples of datasets with an image, a semantic mask or a text embedding;
\* "pose" is a key the factory does not read; the last sample lacks its
\* position.
FactorySamples ==
    {FactorySample(idx, {"utm"} \cup ks, <<1, 2>>) :
        idx \in 0..1, ks \in {{}, {"image"}, {"image", "semantic"}, {"pose"}}}
    \cup {FactorySample(idx, {"utm", "text_emb_front"}, sh) : idx \in 0..1, sh \in EmbShapes}
    \cup {FactorySample(0, {"image"}, <<1, 2>>)}

FactoryLists == UNION {[1..k -> FactorySamples] : k \in 1..MaxBatch}

\* A call of make_collate_fn.collate_fn on samples without clouds.
collate_fn_stack_call ==
    /\ phase = "constructed" /\ call = NoCall
    /\ \E data_list \in FactoryLists :
        LET r == collate_fn_stack(data_list, batch_split_size)
        IN  /\ call' = [op |-> "collate_fn_stack", args |-> [data_list |-> data_list]]
            /\ ret' = r.result
            /\ raised' = r.raised
    /\ UNCHANGED <<builtvars, loadervars, cfgvars>>

\* Cloud files and masks of the records whose samples a loader collates:
\* clouds with points, masks without a dynamic pixel.
LoaderFiles == {<< <<1, 0, 0>> >>, << <<1, 0, 0>>, <<2, 1, 1>> >>}

LoaderMasks == [cam \in Cameras |-> MapStatic]

IdxLists == UNION {[1..k -> 0..(Len(dataset_df) - 1)] : k \in 1..MaxBatch}

\* A call of ITLPCampus.collate_fn on the samples __getitem__ of this
\* dataset returned for the records idxs.
collate_samples_call ==
    /\ phase = "constructed" /\ call = NoCall
    /\ \E idxs \in IdxLists, file \in LoaderFiles :
        LET samples == [k \in 1..Len(idxs) |-> getitem(idxs[k], file, LoaderMasks, "none")]
            data_list == [k \in 1..Len(idxs) |-> samples[k].data]
        IN  /\ \A k \in 1..Len(idxs) : samples[k].raised = "none"
            /\ call' = [op |-> "ITLPCampus.collate_fn", args |-> [data_list |-> data_list]]
            /\ ret' = collate_data_dict(data_list).result
            /\ raised' = collate_data_dict(data_list).raised
    /\ UNCHANGED <<builtvars, loadervars, cfgvars>>

\* A call of ITLPCampus._load_pc on a cloud file.
load_pc_call ==
    /\ phase = "constructed" /\ call = NoCall
    /\ \E file \in Clouds(FilePoints) :
        /\ call' = [op |-> "_load_pc", args |-> [file |-> file]]
        /\ ret' = [pointcloud |-> load_pc(file, max_point_distance)]
        /\ raised' = "none"
    /\ UNCHANGED <<builtvars, loadervars, cfgvars>>

\* The caller takes the result of the last call.
next_call ==
    /\ call # NoCall
    /\ call' = NoCall
    /\ ret' = NoRet
    /\ raised' = "none"
    /\ UNCHANGED <<builtvars, loadervars, cfgvars>>

NextSample ==
    load_pc_call \/ remove_dynamic_points_call \/ getitem_call
        \/ collate_data_dict_call \/ collate_fn_clouds_call
        \/ collate_fn_stack_call \/ collate_samples_call \/ next_call

SpecSample == InitSample /\ [][NextSample]_vars

---------------------------------------------------------------------------
(* Vocabulary of the properties.  The distance of two records is taken    *)
(* from the position table directly, not from the matrices of the model.  *)

N == Len(dataset_df)

Records == 0..(N - 1)

Built == phase = "constructed"

HasMasks == Built /\ cls = "ITLPCampus"

HasBatch == Built /\ batch # NoBatch

Elems(seq) == {seq[k] : k \in 1..Len(seq)}

positives(i) == Elems(positives_index[i])

nonnegatives(i) == Elems(nonnegative_index[i])

IsAscending(seq) == \A k \in 1..(Len(seq) - 1) : seq[k] < seq[k + 1]

\* squared distance of records i and j
D2(i, j) ==
    LET a == dataset_df[i + 1]
        b == dataset_df[j + 1]
        sq(v) == v * v
    IN  sq(a[1] - b[1]) + sq(a[2] - b[2]) + (IF Len(a) = 3 THEN sq(a[3] - b[3]) ELSE 0)

P2 == positive_threshold * positive_threshold

N2 == negative_threshold * negative_threshold

ThresholdErrors == {"ValueError: positive_threshold", "ValueError: negative_threshold"}

IndexAttrs == {"_positives_index", "_nonnegative_index"}

MaskAttrs == {"_positives_mask", "_negatives_mask"}

---------------------------------------------------------------------------
(* C1: in every constructed dataset (thresholds p >= 0, n >= 0, any       *)
(* position table) no record i is an element of positives(i).             *)
Thm_C1_SelfNotPositive ==
    Built => \A i \in Records : i \notin positives(i)

\* A dataset with a positive threshold above 0 (so that distance(i,i) = 0
\* is below it) in which some record has a positive.
Wit_C1_PositivesExist ==
    /\ Built
    /\ positive_threshold > 0
    /\ \E i \in Records : positives(i) # {}

---------------------------------------------------------------------------
(* C2 as stated: for all p >= 0, n >= 0, in any order, positives(i) is a  *)
(* subset of nonnegatives(i) for every record i.                          *)
Cex_C2_SubsetAnyOrder ==
    Built => \A i \in Records : positives(i) \subseteq nonnegatives(i)

(* C2 amended: whenever positive_threshold <= negative_threshold,         *)
(* positives(i) is a subset of nonnegatives(i) for every record i.        *)
Thm_C2_SubsetWhenOrdered ==
    (Built /\ positive_threshold <= negative_threshold)
        => \A i \in Records : positives(i) \subseteq nonnegatives(i)

\* Ordered thresholds and a record that has a positive.
Wit_C2_OrderedWithPositive ==
    /\ Built
    /\ positive_threshold <= negative_threshold
    /\ \E i \in Records : positives(i) # {}

---------------------------------------------------------------------------
(* C3: the positives relation is symmetric: j is in positives(i) if and   *)
(* only if i is in positives(j).                                          *)
Thm_C3_PositivesSymmetric ==
    Built => \A i, j \in Records : (j \in positives(i)) <=> (i \in positives(j))

\* Two records that are positives of each other.
Wit_C3_MutualPositives ==
    /\ Built
    /\ \E i, j \in Records : i < j /\ j \in positives(i) /\ i \in positives(j)

---------------------------------------------------------------------------
(* C4: positives[i] is the ascending, duplicate-free sequence of exactly  *)
(* the j with 0 < distance(i,j) < positive_threshold, nonnegatives[i] the *)
(* ascending, duplicate-free sequence of exactly the j with               *)
(* distance(i,j) < negative_threshold; a record at distance exactly equal *)
(* to a threshold is in neither.                                          *)
Thm_C4_IndexesExact ==
    Built => \A i \in Records :
        /\ IsAscending(positives_index[i])
        /\ positives(i) =
             {j \in Records : D2(i, j) > 0 /\ positive_threshold > 0 /\ D2(i, j) < P2}
        /\ IsAscending(nonnegative_index[i])
        /\ nonnegatives(i) =
             {j \in Records : negative_threshold > 0 /\ D2(i, j) < N2}
        /\ \A j \in Records :
             /\ D2(i, j) = P2 => j \notin positives(i)
             /\ D2(i, j) = N2 => j \notin nonnegatives(i)

\* Two different records at distance exactly positive_threshold, below
\* negative_threshold: the second is listed as a non-negative of the first
\* after the first itself.
Wit_C4_TieAtPositiveThreshold ==
    /\ Built
    /\ \E i, j \in Records :
        /\ i # j
        /\ positive_threshold > 0
        /\ D2(i, j) = P2
        /\ D2(i, j) < N2
        /\ Len(nonnegative_index[i]) >= 2

---------------------------------------------------------------------------
(* C5 as stated: for every accepted negative_threshold (any value >= 0)   *)
(* nonnegatives[i] contains i.                                            *)
Cex_C5_SelfNonnegativeAnyThreshold ==
    Built => \A i \in Records : i \in nonnegatives(i)

(* C5 amended: for every negative_threshold > 0, nonnegatives[i] contains *)
(* i; with negative_threshold = 0 every nonnegatives[i] is empty.         *)
Thm_C5_SelfNonnegativeWhenPositive ==
    Built => \A i \in Records :
        /\ negative_threshold > 0 => i \in nonnegatives(i)
        /\ negative_threshold = 0 => nonnegatives(i) = {}

\* A non-empty dataset built with negative_threshold > 0.
Wit_C5_PositiveNegativeThreshold ==
    Built /\ negative_threshold > 0 /\ N >= 1

---------------------------------------------------------------------------
(* C6 as stated: positives(i) contains every j # i whose distance to i is *)
(* below positive_threshold, a different record at the same position      *)
(* (distance 0) included.                                                 *)
Cex_C6_PositivesIncludeColocated ==
    Built => \A i, j \in Records :
        (i # j /\ positive_threshold > 0 /\ D2(i, j) < P2) => j \in positives(i)

(* C6 amended: positives(i) contains every j whose distance to i is above *)
(* 0 and below positive_threshold; a different record located at exactly  *)
(* the position of i (distance 0) is not in positives(i).                 *)
Thm_C6_PositivesExcludeColocated ==
    Built => \A i, j \in Records :
        /\ (D2(i, j) > 0 /\ positive_threshold > 0 /\ D2(i, j) < P2) => j \in positives(i)
        /\ (i # j /\ D2(i, j) = 0) => j \notin positives(i)

\* Two different records at the same position, with positive_threshold > 0.
Wit_C6_ColocatedRecords ==
    /\ Built
    /\ positive_threshold > 0
    /\ \E i, j \in Records : i # j /\ D2(i, j) = 0

---------------------------------------------------------------------------
(* C7: negatives_mask[i,j] is true if and only if                         *)
(* distance(i,j) >= negative_threshold, that is, if and only if j is not  *)
(* in nonnegatives(i).                                                    *)
Cex_C7_NegativesMaskIsComplement ==
    HasMasks => \A i, j \in Records :
        /\ negatives_mask[i][j] <=> (D2(i, j) >= N2)
        /\ negatives_mask[i][j] <=> (j \notin nonnegatives(i))

---------------------------------------------------------------------------
---------------------------------------------------------------------------
---------------------------------------------------------------------------
(* C10: for the poses (0,0),(1,0),(20,0),(100,0) with positive_threshold  *)
(* 5 and negative_threshold 15: positives(0) = [1], nonnegatives(0) =     *)
(* [0,1], negatives_mask(0,2) is true and negatives_mask(0,1) is false.   *)
IsScenario ==
    /\ Built
    /\ dataset_df \in {ScenarioInput2D.df, ScenarioInput3D.df}
    /\ positive_threshold = ScenarioInput3D.p
    /\ negative_threshold = ScenarioInput3D.n

Thm_C10_Scenario ==
    IsScenario =>
        /\ positives_index[0] = <<1>>
        /\ nonnegative_index[0] = <<0, 1>>
        /\ cls = "ITLPCampus" =>
            /\ negatives_mask[0][2] = TRUE
            /\ negatives_mask[0][1] = FALSE

\* The scenario dataset, constructed as an ITLPCampus (index and masks).
Wit_C10_ScenarioBuilt ==
    IsScenario /\ cls = "ITLPCampus"

---------------------------------------------------------------------------
(* C11: for a batch of K samples with original indices idx (repeats       *)
(* allowed) collate_fn returns K x K masks with positives[a,b] true iff   *)
(* idx[b] is in positives(idx[a]) and negatives[a,b] true iff idx[b] is   *)
(* not in nonnegatives(idx[a]), rows and columns in sample order.         *)
Thm_C11_BatchMasks ==
    HasBatch =>
        LET K == Len(batch.indices)
        IN  /\ DOMAIN batch.positives_mask = 1..K
            /\ DOMAIN batch.negatives_mask = 1..K
            /\ \A a \in 1..K :
                /\ DOMAIN batch.positives_mask[a] = 1..K
                /\ DOMAIN batch.negatives_mask[a] = 1..K
                /\ \A b \in 1..K :
                    /\ batch.positives_mask[a][b]
                         <=> (batch.indices[b] \in positives(batch.indices[a]))
                    /\ batch.negatives_mask[a][b]
                         <=> (batch.indices[b] \notin nonnegatives(batch.indices[a]))

\* A batch of two samples, the second a positive and a non-negative of the
\* first.
Wit_C11_BatchWithPositive ==
    /\ HasBatch
    /\ Len(batch.indices) >= 2
    /\ batch.positives_mask[1][2]
    /\ ~batch.negatives_mask[1][2]

---------------------------------------------------------------------------
(* C12: in every batch the positives mask is false at [a,b] whenever      *)
(* samples a and b carry the same original index, the diagonal included.  *)
Thm_C12_BatchSelfNotPositive ==
    HasBatch => \A a, b \in 1..Len(batch.indices) :
        (batch.indices[a] = batch.indices[b]) => ~batch.positives_mask[a][b]

\* A batch that holds the same record twice, from a dataset with a
\* positive threshold above 0.
Wit_C12_RepeatedSample ==
    /\ HasBatch
    /\ positive_threshold > 0
    /\ \E a, b \in 1..Len(batch.indices) : a # b /\ batch.indices[a] = batch.indices[b]

---------------------------------------------------------------------------
(* C14: a collate function made with a batch_split_size other than None   *)
(* or 0 raises NotImplementedError on every call and never returns a      *)
(* batch or masks; one made with None or 0 never raises that error.       *)
Multistage == collate_made /\ batch_split_size \notin {None, {0}}

\* The states in which collate_fn is the one operation that can act.
collate_fn_ready == phase = "constructed" /\ collate_made /\ batch = NoBatch

---------------------------------------------------------------------------
(* Vocabulary of the properties of the sample pipeline.                    *)

Called(op) == call.op = op

\* The positions of the rows of cloud inp on which P holds.
KeptPositions(inp, P(_)) == {i \in 1..Len(inp) : P(inp[i])}

\* out is cloud inp restricted to the positions pos, in the order of inp.
IsSelection(out, inp, pos) ==
    /\ Len(out) = Cardinality(pos)
    /\ \A k \in 1..Len(out) :
        out[k] = inp[CHOOSE i \in pos : Cardinality({j \in pos : j < i}) = k - 1]

---------------------------------------------------------------------------
(* C15: _load_pc keeps, in their original order, exactly the points whose  *)
(* x, y and z all lie in the closed range [-100, 100] when                 *)
(* max_point_distance is None; when it is finite, exactly those that pass  *)
(* the range test and have Euclidean norm strictly below it.               *)
C15_Kept(p) ==
    /\ ~isnan(p)
    /\ \A a \in 1..3 : p[a] \in (-100)..100
    /\ max_point_distance # None =>
          NormSq(p) < Some(max_point_distance) * Some(max_point_distance)

Thm_C15_LoadPcRange ==
    Called("_load_pc") =>
        IsSelection(ret.pointcloud, call.args.file,
                    KeptPositions(call.args.file, C15_Kept))

\* A file with a point on the limit of the range, which is kept, and a
\* point beyond the limit, which is removed.
Wit_C15_LimitKept ==
    /\ Called("_load_pc")
    /\ max_point_distance = None
    /\ ret.pointcloud = << <<0, -100, 0>> >>
    /\ call.args.file = << <<0, 0, 101>>, <<0, -100, 0>> >>

---------------------------------------------------------------------------
(* Vocabulary of the dynamic-point filter, from its contract: the pixel of *)
(* a point is that of a pinhole camera, the bounds are those of the label  *)
(* image.                                                                  *)

Filtered == Called("_remove_dynamic_points")

\* Point p is valid for camera cam and falls on a dynamic pixel of map m.
IsDynamicPoint(p, m, cam) ==
    LET c == camera_values(p, cam)
        px == projectPoints(c, sensor_intrinsics(cam))
    IN  /\ ~isnan(px)
        /\ px[1] \in 0..(m.width - 1)
        /\ px[2] \in 0..(m.height - 1)
        /\ c[3] > 0
        /\ <<px[1], px[2]>> \in m.dyn

---------------------------------------------------------------------------
(* C16: when the label image holds no pixel of a dynamic class,            *)
(* _remove_dynamic_points returns the input cloud unchanged, point for     *)
(* point and in the same order, whatever the projection of the points.     *)
Cex_C16_StaticMapPassThrough ==
    (Filtered /\ call.args.semantic_map.dyn = {}) =>
        (raised = "none" /\ ret.pointcloud = call.args.pointcloud)

---------------------------------------------------------------------------
(* C17: when the label image holds a dynamic class,                        *)
(* _remove_dynamic_points removes exactly the points that are valid (pixel *)
(* not NaN, inside the label image [0,width) x [0,height), depth z > 0)    *)
(* and whose label at floor(pixel) is dynamic; every other point is kept,  *)
(* in its original order.  Stated here for the clouds that hold a point.   *)
Cex_C17_RemovesDynamicOfMap ==
    (Filtered /\ call.args.semantic_map.dyn # {} /\ call.args.pointcloud # <<>>) =>
        /\ raised = "none"
        /\ IsSelection(ret.pointcloud, call.args.pointcloud,
              {i \in 1..Len(call.args.pointcloud) :
                  ~IsDynamicPoint(call.args.pointcloud[i], call.args.semantic_map,
                                  call.args.cam)})

---------------------------------------------------------------------------
(* C18: given a cloud of zero points the dynamic-point filter returns it   *)
(* unchanged without raising, whether or not the label image holds a       *)
(* dynamic class.                                                          *)
Cex_C18_EmptyCloudReturned ==
    (Filtered /\ call.args.pointcloud = <<>>) =>
        (raised = "none" /\ ret.pointcloud = <<>>)

---------------------------------------------------------------------------
(* C19: in __getitem__ the dynamic-point filter is skipped for a camera    *)
(* that is not among the sensors and is additive across the loaded         *)
(* cameras: the resulting cloud is the loaded cloud minus every point that *)
(* the back-camera filter or the front-camera filter would remove from it. *)

\* The filter of camera cam, given map m, removes point p.
WouldRemove(p, m, cam) ==
    LET c == camera_values(p, cam)
        px == projectPoints(c, sensor_intrinsics(cam))
    IN  /\ has_dynamic(m)
        /\ ~isnan(px) /\ in_bounds(px, m) /\ c[3] > 0
        /\ <<px[1], px[2]>> \in m.dyn

FilterOn == exclude_dynamic_classes /\ indoor /\ "lidar" \in sensors

Cex_C19_FilterAdditive ==
    (Called("__getitem__") /\ FilterOn) =>
        /\ raised = "none"
        /\ LET loaded == load_pc(call.args.file, max_point_distance)
           IN  IsSelection(ret["pointcloud_lidar_coords"], loaded,
                  {i \in 1..Len(loaded) :
                      \A cam \in Cameras \cap sensors :
                          ~WouldRemove(loaded[i], call.args.masks[cam], cam)})

---------------------------------------------------------------------------
(* C13: in _collate_data_dict a sample key other than idx, pose, an        *)
(* image_* key, a mask_* key, pointcloud_lidar_coords or                   *)
(* pointcloud_lidar_feats raises an error and no batch is returned; such a *)
(* key is never silently skipped.                                          *)
KnownKeys ==
    {"idx", "pose", "pointcloud_lidar_coords", "pointcloud_lidar_feats"}
        \cup ImageKeys \cup MaskKeys

HasUnknownKey(data_list) ==
    \E i \in 1..Len(data_list) : DOMAIN data_list[i] \ KnownKeys # {}

---------------------------------------------------------------------------
(* Vocabulary of the batched clouds.                                       *)

\* A batch with point clouds has been returned.
CloudBatch ==
    /\ raised = "none"
    /\ \/ Called("collate_fn")
       \/ Called("_collate_data_dict") /\ "pointclouds_lidar_coords" \in DOMAIN ret

BatchClouds ==
    IF Called("collate_fn") THEN call.args.clouds
    ELSE Column(call.args.data_list, "pointcloud_lidar_coords")

BatchCoords ==
    IF Called("collate_fn") THEN ret["coordinates"] ELSE ret["pointclouds_lidar_coords"]

BatchFeats ==
    IF Called("collate_fn") THEN ret["features"] ELSE ret["pointclouds_lidar_feats"]

\* The values of the batch-index column.
Slots == {BatchCoords[r][1] : r \in 1..Len(BatchCoords)}

RowsOfSlot(b) == Cardinality({r \in 1..Len(BatchCoords) : BatchCoords[r][1] = b})

\* The distinct voxels of a cloud.
Voxels(cloud) == {Voxel(cloud[i], quantization_size) : i \in 1..Len(cloud)}

---------------------------------------------------------------------------
(* C20 as stated: when K samples with point clouds are assembled, the      *)
(* batch-index column has exactly K distinct values, sample k contributes  *)
(* as many rows as its cloud has distinct voxels, and there are as many    *)
(* feature rows as coordinate rows.                                        *)
Cex_C20_ExactlyKSlots ==
    CloudBatch =>
        /\ Cardinality(Slots) = Len(BatchClouds)
        /\ \A k \in 1..Len(BatchClouds) :
              RowsOfSlot(k - 1) = Cardinality(Voxels(BatchClouds[k]))
        /\ Len(BatchFeats) = Len(BatchCoords)

(* C20 amended: sample k (0-based slot k) contributes as many rows as its  *)
(* cloud has distinct voxels, all with batch index k; the batch-index      *)
(* column holds exactly the slots of the samples whose cloud has at least  *)
(* one point, so K distinct values when no cloud is empty and fewer        *)
(* otherwise; there are as many feature rows as coordinate rows.           *)
Thm_C20_SlotsOfNonEmptyClouds ==
    CloudBatch =>
        /\ Slots = {k - 1 : k \in {j \in 1..Len(BatchClouds) : BatchClouds[j] # <<>>}}
        /\ \A k \in 1..Len(BatchClouds) :
              RowsOfSlot(k - 1) = Cardinality(Voxels(BatchClouds[k]))
        /\ Len(BatchFeats) = Len(BatchCoords)

\* A batch of at least two clouds, each with a point, in which
\* quantization has merged two points of a cloud into one voxel.
Wit_C20_MergedVoxels ==
    /\ CloudBatch
    /\ Called("_collate_data_dict")
    /\ Len(BatchClouds) >= 2
    /\ \A k \in 1..Len(BatchClouds) : BatchClouds[k] # <<>>
    /\ \E k \in 1..Len(BatchClouds) : RowsOfSlot(k - 1) < Len(BatchClouds[k])
    /\ Cardinality(Slots) = Len(BatchClouds)

---------------------------------------------------------------------------
(* C21: stacking of the modalities other than the cloud, in               *)
(* ITLPCampus._collate_data_dict and in the collate_fn of the factory.    *)

\* The sample keys each assembler stacks.
StackKeys == {"pose"} \cup ImageKeys \cup MaskKeys

FactoryStackKeys == {"image", "semantic", "text_emb_front", "utm"}

DataList == call.args.data_list

\* The k-th slice of a stacked tensor.
Slice(t, k) == Tensor(Tail(t.shape), t.data[k])

\* A tensor without its leading dimension when that has size 1.
Unrowed(t) == IF Len(t.shape) >= 1 /\ t.shape[1] = 1 THEN Tensor(Tail(t.shape), t.data) ELSE t

\* The entries of a batch _collate_data_dict returned: K long, in the
\* order of the list, present only for keys that all samples have.
ITLPStacked ==
    (Called("_collate_data_dict") /\ raised = "none") =>
        \A k \in StackKeys :
            IF HasAll(DataList, k)
            THEN /\ BatchKey(k) \in DOMAIN ret
                 /\ DOMAIN ret[BatchKey(k)] = 1..Len(DataList)
                 /\ \A i \in 1..Len(DataList) : ret[BatchKey(k)][i] = DataList[i][k]
            ELSE BatchKey(k) \notin DOMAIN ret

---------------------------------------------------------------------------
---------------------------------------------------------------------------
(* C23 as stated: for every accepted pair of thresholds, in any order, no *)
(* pair of records is marked both positive and negative, neither in the   *)
(* dataset-level masks of _build_masks nor in the masks of a batch.       *)
Cex_C23_NeverBothAnyOrder ==
    /\ HasMasks => \A i, j \in Records : ~(positives_mask[i][j] /\ negatives_mask[i][j])
    /\ HasBatch => \A a, b \in 1..Len(batch.indices) :
        ~(batch.positives_mask[a][b] /\ batch.negatives_mask[a][b])

(* C23 amended: with positive_threshold <= negative_threshold no pair is  *)
(* marked both positive and negative, in the dataset-level masks and in   *)
(* the masks of a batch; with positive_threshold > negative_threshold,    *)
(* which is accepted too, the pairs marked both are exactly those at a    *)
(* distance d > 0 with negative_threshold < d < positive_threshold in the *)
(* dataset-level masks and with negative_threshold <= d <                 *)
(* positive_threshold in the masks of a batch.                            *)
Thm_C23_BothOnlyWhenInverted ==
    /\ HasMasks => \A i, j \in Records :
        (positives_mask[i][j] /\ negatives_mask[i][j])
          <=> (positive_threshold > negative_threshold
                 /\ D2(i, j) > 0 /\ D2(i, j) > N2 /\ D2(i, j) < P2)
    /\ HasBatch => \A a, b \in 1..Len(batch.indices) :
        (batch.positives_mask[a][b] /\ batch.negatives_mask[a][b])
          <=> (positive_threshold > negative_threshold
                 /\ D2(batch.indices[a], batch.indices[b]) > 0
                 /\ D2(batch.indices[a], batch.indices[b]) >= N2
                 /\ D2(batch.indices[a], batch.indices[b]) < P2)

\* A batch with a positive pair, of an ITLPCampus dataset with ordered
\* thresholds whose masks hold positive pairs and negative pairs.
Wit_C23_OrderedWithBothKinds ==
    /\ HasMasks
    /\ HasBatch
    /\ 0 < positive_threshold
    /\ positive_threshold <= negative_threshold
    /\ \E a, b \in 1..Len(batch.indices) : batch.positives_mask[a][b]
    /\ \E i, j \in Records : positives_mask[i][j]
    /\ \E i, j \in Records : negatives_mask[i][j]

---------------------------------------------------------------------------
(* C24: for every configuration of ITLPCampus every key __getitem__ puts  *)
(* into a sample is one _collate_data_dict accepts, so collating samples  *)
(* of the same dataset never raises the unknown-data-key error.           *)
OwnSamples == Called("ITLPCampus.collate_fn")

Cex_C24_OwnKeysAccepted ==
    /\ (Called("__getitem__") /\ raised = "none") => DOMAIN ret \subseteq KnownKeys
    /\ OwnSamples => raised # "ValueError"

---------------------------------------------------------------------------
(* C25: whenever __getitem__ invokes the dynamic-point filter for a       *)
(* camera (exclude_dynamic_classes and indoor set, lidar and the camera   *)
(* among the sensors), the mask of that camera has been loaded into the   *)
(* sample earlier in the call, for every value of load_semantics: the     *)
(* filter is never invoked on an absent mask.                             *)
FilterInvoked(cam) ==
    exclude_dynamic_classes /\ indoor /\ "lidar" \in sensors /\ cam \in sensors

Cex_C25_MaskLoadedBeforeFilter ==
    Called("__getitem__") =>
        \A cam \in Cameras :
            FilterInvoked(cam) =>
                /\ raised # "KeyError"
                /\ raised = "none" => MaskKey(cam) \in DOMAIN ret

---------------------------------------------------------------------------
(* C26: in _remove_dynamic_points every label lookup uses a (row, column) *)
(* index inside the semantic map passed in, for every mask size the       *)
(* semantic transform can produce, the default 320 x 192 included: a      *)
(* point counts as in bounds only if its pixel is inside that map, so no  *)
(* lookup is out of range.                                                *)
Pixel(p, cam) == projectPoints(camera_values(p, cam), sensor_intrinsics(cam))

\* The label of the pixel of point p is looked up in map m.
LookedUp(p, m, cam) ==
    /\ has_dynamic(m)
    /\ ~isnan(Pixel(p, cam))
    /\ in_bounds(Pixel(p, cam), m)
    /\ camera_values(p, cam)[3] > 0

InsideMap(px, m) == px[1] \in 0..(m.width - 1) /\ px[2] \in 0..(m.height - 1)

Cex_C26_LookupInsideMap ==
    /\ Called("_remove_dynamic_points") =>
        /\ raised # "IndexError"
        /\ \A i \in 1..Len(call.args.pointcloud) :
            LookedUp(call.args.pointcloud[i], call.args.semantic_map, call.args.cam)
              => InsideMap(Pixel(call.args.pointcloud[i], call.args.cam),
                           call.args.semantic_map)
    /\ Called("__getitem__") => raised # "IndexError"

====
